---------------------------- MODULE Spec2Model ----------------------------
(***************************************************************************)
(* The analyze pipeline of weapon_ocr_backend (src/main.py): image         *)
(* decoding, the vision backend call, parsing and validation of the        *)
(* backend's JSON text, the weapon-triggered e-mail alert, and the mapping *)
(* of every failure to an HTTP 500.                                        *)
(*                                                                         *)
(* Python strings are TLA+ strings; TLC evaluates Len, SubSeq and \o on    *)
(* them, so every string operation below works character by character.    *)
(***************************************************************************)
EXTENDS Integers, Sequences, FiniteSets, TLC

(***************************************************************************)
(* Bounds of the model.                                                    *)
(***************************************************************************)
\* longest base64 body drawn for a payload (a prefix of B64Sample)
MaxB64Len == 4
\* longest run of whitespace put before and after a backend text
MaxPad == 1

(***************************************************************************)
(* Python str operations used by src/main.py.                              *)
(***************************************************************************)
Char(s, i) == SubSeq(s, i, i)

\* s[i-1:j], a slice that stops at the end of s
Slice(s, i, j) == SubSeq(s, i, IF j > Len(s) THEN Len(s) ELSE j)

\* sub in s
Contains(s, sub) ==
    \E i \in 1..(Len(s) - Len(sub) + 1) : SubSeq(s, i, i + Len(sub) - 1) = sub

\* s.find(c) for a one-character c, 1-based; 0 when c does not occur
Find(s, c) ==
    IF \E i \in 1..Len(s) : Char(s, i) = c
    THEN CHOOSE i \in 1..Len(s) :
             Char(s, i) = c /\ \A j \in 1..(i - 1) : Char(s, j) # c
    ELSE 0

startswith(s, p) == Len(p) <= Len(s) /\ SubSeq(s, 1, Len(p)) = p

endswith(s, p) == Len(p) <= Len(s) /\ SubSeq(s, Len(s) - Len(p) + 1, Len(s)) = p

removeprefix(s, p) == IF startswith(s, p) THEN SubSeq(s, Len(p) + 1, Len(s)) ELSE s

removesuffix(s, p) ==
    IF p # "" /\ endswith(s, p) THEN SubSeq(s, 1, Len(s) - Len(p)) ELSE s

\* the ASCII characters str.strip() removes (\v is not writable in TLA+)
PyWhitespace == {" ", "\t", "\n", "\r", "\f"}

RECURSIVE lstrip(_)
lstrip(s) ==
    IF s # "" /\ Char(s, 1) \in PyWhitespace THEN lstrip(SubSeq(s, 2, Len(s))) ELSE s

RECURSIVE rstrip(_)
rstrip(s) ==
    IF s # "" /\ Char(s, Len(s)) \in PyWhitespace
    THEN rstrip(SubSeq(s, 1, Len(s) - 1))
    ELSE s

strip(s) == rstrip(lstrip(s))

\* data_url.split(",", 1) when "," occurs: the text before and after the first comma
split_first(s, c) ==
    LET k == Find(s, c)
    IN  [header |-> SubSeq(s, 1, k - 1), rest |-> SubSeq(s, k + 1, Len(s))]

DigitChars == "0123456789"

\* str(n) of an int
RECURSIVE NatToStr(_)
NatToStr(n) ==
    IF n < 10 THEN Char(DigitChars, n + 1)
    ELSE NatToStr(n \div 10) \o Char(DigitChars, (n % 10) + 1)

IntToStr(n) == IF n < 0 THEN "-" \o NatToStr(0 - n) ELSE NatToStr(n)

(***************************************************************************)
(* base64.b64decode(b64), validate=False: characters outside the alphabet  *)
(* are discarded, "=" is padding, and a trailing incomplete quad is an     *)
(* error (binascii.Error).                                                 *)
(***************************************************************************)
B64Alphabet == "ABCDEFGHIJKLMNOPQRSTUVWXYZabcdefghijklmnopqrstuvwxyz0123456789+/"

B64Index(c) == Find(B64Alphabet, c) - 1

\* the number of alphabet characters of s, which the error message quotes
B64DataChars(s) == Cardinality({i \in 1..Len(s) : Find(B64Alphabet, Char(s, i)) # 0})

RECURSIVE a2b_base64(_, _, _, _, _, _)
a2b_base64(s, i, quad_pos, leftchar, pads, out) ==
    IF i > Len(s)
    THEN IF quad_pos = 0
         THEN [ok |-> TRUE, data |-> out, error |-> ""]
         ELSE IF quad_pos = 1
         THEN [ok |-> FALSE, data |-> << >>,
               error |-> "Invalid base64-encoded string: number of data characters ("
                         \o IntToStr(B64DataChars(s))
                         \o ") cannot be 1 more than a multiple of 4"]
         ELSE [ok |-> FALSE, data |-> << >>, error |-> "Incorrect padding"]
    ELSE LET c == Char(s, i)
         IN  IF c = "="
             THEN IF quad_pos >= 2 /\ quad_pos + pads + 1 >= 4
                  THEN [ok |-> TRUE, data |-> out, error |-> ""]
                  ELSE a2b_base64(s, i + 1, quad_pos, leftchar,
                                  IF quad_pos >= 2 THEN pads + 1 ELSE pads, out)
             ELSE IF Find(B64Alphabet, c) = 0
             THEN a2b_base64(s, i + 1, quad_pos, leftchar, pads, out)
             ELSE LET v == B64Index(c)
                  IN  CASE quad_pos = 0 ->
                               a2b_base64(s, i + 1, 1, v, 0, out)
                        [] quad_pos = 1 ->
                               a2b_base64(s, i + 1, 2, v % 16, 0,
                                          Append(out, leftchar * 4 + (v \div 16)))
                        [] quad_pos = 2 ->
                               a2b_base64(s, i + 1, 3, v % 4, 0,
                                          Append(out, leftchar * 16 + (v \div 4)))
                        [] OTHER ->
                               a2b_base64(s, i + 1, 0, 0, 0,
                                          Append(out, leftchar * 64 + v))

b64decode(b64) == a2b_base64(b64, 1, 0, 0, 0, << >>)

(***************************************************************************)
(* to_image_part (src/main.py:79-89).                                      *)
(***************************************************************************)
\* InferMime with line 83 testing for "image/jpeg" alone
InferMimeJpegOnly(data_url) ==
    IF Contains(data_url, ",")
    THEN IF Contains(split_first(data_url, ",").header, "image/jpeg")
         THEN "image/jpeg"
         ELSE "image/png"
    ELSE "image/jpeg"

\* line 83 / line 86: the MIME type, from the header when there is a comma
InferMime(data_url) ==
    IF Contains(data_url, ",")
    THEN LET header == split_first(data_url, ",").header
         IN  IF Contains(header, "image/jpeg") \/ Contains(header, "image/jpg")
             THEN "image/jpeg"
             ELSE "image/png"
    ELSE "image/jpeg"

\* line 82 / line 85: the base64 text handed to b64decode
Base64Body(data_url) ==
    IF Contains(data_url, ",") THEN split_first(data_url, ",").rest ELSE data_url

\* raised: b64decode raised binascii.Error, which to_image_part lets through
to_image_part(data_url) ==
    LET d == b64decode(Base64Body(data_url))
    IN  [raised    |-> ~d.ok,
         error     |-> d.error,
         mime_type |-> InferMime(data_url),
         data      |-> d.data]

(***************************************************************************)
(* json.loads(clean_text) (src/main.py:146).  A JSON value is a record     *)
(* [t, b, n, s, items]: t is the Python type the value decodes to, b the   *)
(* bool, n the int, s the str, items the list's elements or the dict's     *)
(* entries [k, v] in insertion order.  The decoder covers objects, arrays, *)
(* strings with the one-character escapes, integers and true, false, null; *)
(* fractions, exponents, \u escapes and NaN/Infinity are outside the texts *)
(* the model draws.                                                        *)
(***************************************************************************)
JValue(t, b, n, s, items) == [t |-> t, b |-> b, n |-> n, s |-> s, items |-> items]

JNull == JValue("NoneType", FALSE, 0, "", << >>)

JBool(b) == JValue("bool", b, 0, "", << >>)

JInt(n) == JValue("int", FALSE, n, "", << >>)

JStr(s) == JValue("str", FALSE, 0, s, << >>)

JList(items) == JValue("list", FALSE, 0, "", items)

JDict(items) == JValue("dict", FALSE, 0, "", items)

\* the whitespace json skips between tokens
JsonWhitespace == {" ", "\t", "\n", "\r"}

\* characters json refuses unescaped inside a string (strict mode)
JsonControl == {"\t", "\n", "\r", "\f"}

JsonFail == [ok |-> FALSE, v |-> JNull, i |-> 0]

JsonOk(v, i) == [ok |-> TRUE, v |-> v, i |-> i]

RECURSIVE SkipWs(_, _)
SkipWs(s, i) ==
    IF i <= Len(s) /\ Char(s, i) \in JsonWhitespace THEN SkipWs(s, i + 1) ELSE i

\* d[k] = v on a dict's entries: a repeated key keeps its place and takes the new value
RECURSIVE DictSet(_, _, _)
DictSet(items, k, v) ==
    IF items = << >> THEN << [k |-> k, v |-> v] >>
    ELSE IF Head(items).k = k THEN << [k |-> k, v |-> v] >> \o Tail(items)
    ELSE << Head(items) >> \o DictSet(Tail(items), k, v)

Unescape(c) ==
    CASE c = "n" -> "\n"
      [] c = "t" -> "\t"
      [] c = "r" -> "\r"
      [] c = "f" -> "\f"
      [] OTHER -> c

\* the first index from i on of a character that ends a run of plain string
\* characters (a quote, a backslash, a control character); 0 when there is none
StringStop(s, i) ==
    LET stops == {"\"", "\\"} \cup JsonControl
    IN  IF \E j \in i..Len(s) : Char(s, j) \in stops
        THEN CHOOSE j \in i..Len(s) :
                 Char(s, j) \in stops /\ \A k \in i..(j - 1) : Char(s, k) \notin stops
        ELSE 0

\* scanstring: i is the index after the opening quote, acc the text read so far
RECURSIVE ScanString(_, _, _)
ScanString(s, i, acc) ==
    LET j == StringStop(s, i)
    IN  IF j = 0 THEN JsonFail
        ELSE LET chunk == acc \o SubSeq(s, i, j - 1)
                 c     == Char(s, j)
             IN  IF c = "\"" THEN JsonOk(JStr(chunk), j + 1)
                 ELSE IF c \in JsonControl THEN JsonFail
                 ELSE IF j + 1 <= Len(s)
                         /\ Char(s, j + 1) \in {"\"", "\\", "/", "n", "t", "r", "f"}
                 THEN ScanString(s, j + 2, chunk \o Unescape(Char(s, j + 1)))
                 ELSE JsonFail

RECURSIVE ScanDigits(_, _, _)
ScanDigits(s, i, n) ==
    IF i <= Len(s) /\ Find(DigitChars, Char(s, i)) # 0
    THEN ScanDigits(s, i + 1, 10 * n + (Find(DigitChars, Char(s, i)) - 1))
    ELSE [n |-> n, i |-> i]

\* NUMBER_RE, integer part: -?(0|[1-9][0-9]*); j is the index after the sign
ScanUnsigned(s, j, neg) ==
    IF j > Len(s) \/ Find(DigitChars, Char(s, j)) = 0 THEN JsonFail
    ELSE IF Char(s, j) = "0" THEN JsonOk(JInt(0), j + 1)
    ELSE JsonOk(JInt(IF neg THEN 0 - ScanDigits(s, j, 0).n ELSE ScanDigits(s, j, 0).n),
                ScanDigits(s, j, 0).i)

ScanNumber(s, i) ==
    IF i <= Len(s) /\ Char(s, i) = "-"
    THEN ScanUnsigned(s, i + 1, TRUE)
    ELSE ScanUnsigned(s, i, FALSE)

RECURSIVE ScanOnce(_, _)
RECURSIVE ScanMembers(_, _, _)
RECURSIVE ScanElements(_, _, _)

\* JSONObject, after a member: e is the index of the next token, "}" or ","
AfterMember(s, items, e) ==
    IF e > Len(s) THEN JsonFail
    ELSE IF Char(s, e) = "}" THEN JsonOk(JDict(items), e + 1)
    ELSE IF Char(s, e) # "," THEN JsonFail
    ELSE IF SkipWs(s, e + 1) <= Len(s) /\ Char(s, SkipWs(s, e + 1)) = "\""
    THEN ScanMembers(s, SkipWs(s, e + 1) + 1, items)
    ELSE JsonFail

\* JSONObject, after a member's value val has been scanned for key k
AfterValue(s, items, k, val) ==
    IF ~val.ok THEN JsonFail
    ELSE AfterMember(s, DictSet(items, k, val.v), SkipWs(s, val.i))

\* JSONObject, after a key: c is the index of the next token, which must be ":"
AfterKey(s, items, k, c) ==
    IF c > Len(s) \/ Char(s, c) # ":" THEN JsonFail
    ELSE AfterValue(s, items, k, ScanOnce(s, SkipWs(s, c + 1)))

\* JSONObject, a key that scanstring has read
WithKey(s, items, key) ==
    IF ~key.ok THEN JsonFail ELSE AfterKey(s, items, key.v.s, SkipWs(s, key.i))

\* JSONObject, one "key": value member and the members after it; i is the index
\* after the key's opening quote
ScanMembers(s, i, items) == WithKey(s, items, ScanString(s, i, ""))

\* JSONObject: j is the index of the first token after "{"
ScanObjectAt(s, j) ==
    IF j <= Len(s) /\ Char(s, j) = "}" THEN JsonOk(JDict(<< >>), j + 1)
    ELSE IF j <= Len(s) /\ Char(s, j) = "\"" THEN ScanMembers(s, j + 1, << >>)
    ELSE JsonFail

ScanObject(s, i) == ScanObjectAt(s, SkipWs(s, i))

\* JSONArray, after an element: e is the index of the next token, "]" or ","
AfterElement(s, items, e) ==
    IF e > Len(s) THEN JsonFail
    ELSE IF Char(s, e) = "]" THEN JsonOk(JList(items), e + 1)
    ELSE IF Char(s, e) # "," THEN JsonFail
    ELSE ScanElements(s, SkipWs(s, e + 1), items)

\* JSONArray, an element val that scan_once has read
WithElement(s, items, val) ==
    IF ~val.ok THEN JsonFail
    ELSE AfterElement(s, Append(items, val.v), SkipWs(s, val.i))

ScanElements(s, i, items) == WithElement(s, items, ScanOnce(s, i))

\* JSONArray: j is the index of the first token after "["
ScanArrayAt(s, j) ==
    IF j <= Len(s) /\ Char(s, j) = "]" THEN JsonOk(JList(<< >>), j + 1)
    ELSE ScanElements(s, j, << >>)

ScanArray(s, i) == ScanArrayAt(s, SkipWs(s, i))

\* scan_once: the value that starts at index i
ScanOnce(s, i) ==
    IF i > Len(s) THEN JsonFail
    ELSE CASE Char(s, i) = "\"" -> ScanString(s, i + 1, "")
           [] Char(s, i) = "{" -> ScanObject(s, i + 1)
           [] Char(s, i) = "[" -> ScanArray(s, i + 1)
           [] Char(s, i) = "n" -> IF Slice(s, i, i + 3) = "null"
                                  THEN JsonOk(JNull, i + 4) ELSE JsonFail
           [] Char(s, i) = "t" -> IF Slice(s, i, i + 3) = "true"
                                  THEN JsonOk(JBool(TRUE), i + 4) ELSE JsonFail
           [] Char(s, i) = "f" -> IF Slice(s, i, i + 4) = "false"
                                  THEN JsonOk(JBool(FALSE), i + 5) ELSE JsonFail
           [] OTHER -> ScanNumber(s, i)

\* JSONDecoder.decode, the end: r is the value scanned; only whitespace may follow
DecodeEnd(s, r) ==
    IF r.ok /\ SkipWs(s, r.i) = Len(s) + 1 THEN [ok |-> TRUE, v |-> r.v]
    ELSE [ok |-> FALSE, v |-> JNull]

\* json.loads: one value with whitespace around it; ok = FALSE is json.JSONDecodeError
json_loads(s) == DecodeEnd(s, ScanOnce(s, SkipWs(s, 1)))

(***************************************************************************)
(* bool(x), str(x) and dict.get of the decoded value (src/main.py:148-151) *)
(***************************************************************************)
py_bool(x) ==
    CASE x.t = "NoneType" -> FALSE
      [] x.t = "bool" -> x.b
      [] x.t = "int" -> x.n # 0
      [] x.t = "str" -> x.s # ""
      [] OTHER -> x.items # << >>

RECURSIVE py_repr(_)
RECURSIVE ReprJoin(_, _)

\* the elements of a list, or the entries of a dict, separated by ", "
ReprJoin(items, isDict) ==
    IF items = << >> THEN ""
    ELSE (IF isDict
          THEN "'" \o Head(items).k \o "': " \o py_repr(Head(items).v)
          ELSE py_repr(Head(items)))
         \o (IF Len(items) > 1 THEN ", " ELSE "")
         \o ReprJoin(Tail(items), isDict)

\* repr(x); a str is quoted with ' (the drawn texts hold no quote or escape)
py_repr(x) ==
    CASE x.t = "NoneType" -> "None"
      [] x.t = "bool" -> IF x.b THEN "True" ELSE "False"
      [] x.t = "int" -> IntToStr(x.n)
      [] x.t = "str" -> "'" \o x.s \o "'"
      [] x.t = "list" -> "[" \o ReprJoin(x.items, FALSE) \o "]"
      [] OTHER -> "{" \o ReprJoin(x.items, TRUE) \o "}"

py_str(x) == IF x.t = "str" THEN x.s ELSE py_repr(x)

RECURSIVE DictHas(_, _)
DictHas(items, k) ==
    items # << >> /\ (Head(items).k = k \/ DictHas(Tail(items), k))

RECURSIVE DictAt(_, _)
DictAt(items, k) ==
    IF Head(items).k = k THEN Head(items).v ELSE DictAt(Tail(items), k)

\* data.get(key, default) on a dict
dict_get(d, key, default) ==
    IF DictHas(d.items, key) THEN DictAt(d.items, key) ELSE default

(***************************************************************************)
(* The values the environment supplies: configuration, request payloads,   *)
(* replies of the vision backend and of the e-mail service.                *)
(***************************************************************************)
\* A Python value that is None or a str
PyNone == [none |-> TRUE, s |-> ""]

PyText(s) == [none |-> FALSE, s |-> s]

\* truthiness of such a value: None and "" are falsy
Truthy(o) == ~o.none /\ o.s # ""

\* os.getenv(name) (src/main.py:17-18): unset, set to nothing, or set
EnvValues(value) == {PyNone, PyText(""), PyText(value)}

B64Sample == "QUJDREVG"

Base64Bodies == {SubSeq(B64Sample, 1, n) : n \in 0..MaxB64Len}

\* what comes before the base64 body: data-URL headers with their comma (three
\* image types and one that is no image), a header without the data: scheme,
\* no header at all, and a scheme with no comma
PayloadPrefixes ==
    {"data:image/jpeg;base64,", "data:image/jpg;base64,", "data:image/png;base64,",
     "data:application/octet-stream;base64,", "image/png;base64,", "", "data:image/png"}

Payloads == {p \o b : p \in PayloadPrefixes, b \in Base64Bodies}

\* The character ` cannot be written in a TLA+ string: ^ stands for it, and no
\* other text of the model holds a ^.
Fence == "^^^"

FenceOpener == Fence \o "json"

\* JSON objects a backend may answer with
ObjectTexts ==
    {"{}",
     "{\"weapon_detected\": true, \"gun_detected\": true, \"knife_detected\": false, \"extracted_text\": \"EXIT\"}",
     "{\"weapon_detected\": false, \"gun_detected\": true, \"knife_detected\": true, \"extracted_text\": \"\"}",
     "{\"weapon_detected\": null, \"gun_detected\": null, \"knife_detected\": null, \"extracted_text\": null}",
     "{\"weapon_detected\": 1, \"gun_detected\": 0, \"knife_detected\": \"no\", \"extracted_text\": 0}",
     "{\"weapon_detected\": true}",
     "{\"weapon_detected\": [], \"knife_detected\": [0], \"extracted_text\": [\"A\", 1]}",
     "{\"weapon_detected\": false, \"weapon_detected\": true, \"extracted_text\": \"\"}"}

\* well-formed JSON that is not an object
NonObjectTexts == {"[]", "null"}

\* texts json.loads refuses
MalformedTexts ==
    {"{\"weapon_detected\": true",
     "{weapon_detected: true}",
     "{\"weapon_detected\": True}",
     "{} {}",
     "I cannot help with that.",
     Fence \o "\n{}\n" \o Fence,
     ""}

\* the object wrapped in a markdown fence
Fenced(text) == FenceOpener \o "\n" \o text \o "\n" \o Fence

PadSample == " \n\t "

Pads == {SubSeq(PadSample, 1, n) : n \in 0..MaxPad}

BackendTexts ==
    {l \o c \o r : l \in Pads, r \in Pads,
                   c \in ObjectTexts \cup {Fenced(o) : o \in ObjectTexts}
                         \cup NonObjectTexts \cup MalformedTexts}

\* what client.models.generate_content does: it raises, or returns a response
\* whose text is None or a str and which may carry an output_text attribute
BackendReply(raised, error, text, has_output_text, output_text) ==
    [raised |-> raised, error |-> error, text |-> text,
     has_output_text |-> has_output_text, output_text |-> output_text]

BackendReplies ==
    {BackendReply(TRUE, "503 UNAVAILABLE. The model is overloaded.", PyNone, FALSE, PyNone)}
    \cup {BackendReply(FALSE, "", PyNone, FALSE, PyNone)}
    \cup {BackendReply(FALSE, "", PyNone, TRUE, o) :
              o \in {PyNone, PyText("{\"weapon_detected\": true}")}}
    \cup {BackendReply(FALSE, "", PyText(s), FALSE, PyNone) : s \in BackendTexts}

\* what requests.post does: it raises (timeout, connection refused), or returns
\* a response with a body
EmailReply(raised, error, body) == [raised |-> raised, error |-> error, body |-> body]

EmailReplies ==
    {EmailReply(TRUE, "HTTPConnectionPool: Read timed out. (read timeout=10)", "")}
    \cup {EmailReply(FALSE, "", b) :
              b \in {"{\"success\": true}",
                     "{\"success\": false, \"error\": \"SMTP authentication failed\"}",
                     "{}",
                     "[]",
                     "<html>502 Bad Gateway</html>"}}

(***************************************************************************)
(* State: the configuration read at import (src/main.py:17-18), and, for   *)
(* the request being served, the stage analyze has reached with its locals *)
(* and everything it has done to the outside.                              *)
(***************************************************************************)
VARIABLES
    EMAIL_SERVICE_URL,  \* os.getenv("EMAIL_SERVICE_URL")
    ALERT_EMAIL,        \* os.getenv("ALERT_EMAIL")
    pc,                 \* Idle, Decoding, Inferring, Validating, Notifying, Done, Failed
    payload,            \* payload.image_base64
    image_part,         \* << >>, or the one part to_image_part returned
    response,           \* << >>, or what generate_content returned or raised
    raw_text,           \* the backend's text (None before the call)
    result,             \* << >>, or the four validated fields
    img_src,            \* the src of the alert's inline image
    notifier_calls,     \* the calls of send_email_via_smtp, with what each returned
    outbox,             \* the POSTs made to the e-mail service, each with the reply it got
    backend_calls,      \* the calls of generate_content
    parse_calls,        \* the calls of json.loads
    exc,                \* the exception an except clause caught
    http,               \* the HTTP response of analyze
    log                 \* the records written to the logger

vars == <<EMAIL_SERVICE_URL, ALERT_EMAIL, pc, payload, image_part, response, raw_text, result,
          img_src, notifier_calls, outbox, backend_calls, parse_calls, exc, http, log>>

config == <<EMAIL_SERVICE_URL, ALERT_EMAIL>>

NoException == [type |-> "", msg |-> ""]

Exception(type, msg) == [type |-> type, msg |-> msg]

NoResponse == [status |-> 0, detail |-> "", body |-> << >>]

LogRecord(level, msg) == [level |-> level, msg |-> msg]

\* class AnalysisResponse (src/main.py:40-44)
AnalysisResponse(weapon_detected, gun_detected, knife_detected, extracted_text) ==
    [weapon_detected |-> weapon_detected,
     gun_detected    |-> gun_detected,
     knife_detected  |-> knife_detected,
     extracted_text  |-> extracted_text]

(***************************************************************************)
(* send_email_via_smtp (src/main.py:47-77).  reply is what requests.post   *)
(* does when it is called.  The result says what the function returned     *)
(* (ret), whether it let an exception through (raised), the POSTs it made  *)
(* and the records it logged.                                              *)
(***************************************************************************)
EmailOutcome(ret, posts, logged) ==
    [ret |-> ret, raised |-> FALSE, error |-> "", posts |-> posts, logged |-> logged]

EmailRaised(error, posts) ==
    [ret |-> FALSE, raised |-> TRUE, error |-> error, posts |-> posts, logged |-> << >>]

\* lines 66-73, with the JSON the service answered
ReadReply(recipient, post, res_json) ==
    IF ~res_json.ok
    THEN EmailRaised("Expecting value: line 1 column 1 (char 0)", << post >>)
    ELSE IF res_json.v.t # "dict"
    THEN EmailRaised("'" \o res_json.v.t \o "' object has no attribute 'get'", << post >>)
    ELSE IF py_bool(dict_get(res_json.v, "success", JNull))
    THEN EmailOutcome(TRUE, << post >>,
             << LogRecord("INFO", "Alert email sent successfully to " \o recipient) >>)
    ELSE EmailOutcome(FALSE, << post >>,
             << LogRecord("ERROR", "Email service returned error: "
                                   \o py_str(dict_get(res_json.v, "error", JNull))) >>)

\* lines 57-73, the body of the try: the POST and the reading of the reply
TryPost(recipient, post, reply) ==
    IF reply.raised THEN EmailRaised(reply.error, << post >>)
    ELSE ReadReply(recipient, post, json_loads(reply.body))

\* lines 75-77, the except clause: whatever the try raised is logged
CatchAll(outcome) ==
    IF outcome.raised
    THEN EmailOutcome(FALSE, outcome.posts,
             << LogRecord("ERROR", "Failed to contact email service: " \o outcome.error) >>)
    ELSE outcome

NotConfigured ==
    EmailOutcome(FALSE, << >>,
        << LogRecord("ERROR",
               "EMAIL_SERVICE_URL not set in environment variables. Email not sent.") >>)

EmailPost(recipient, subject, html_body, reply) ==
    [url |-> EMAIL_SERVICE_URL.s, to |-> recipient, subject |-> subject,
     html |-> html_body, reply |-> reply]

\* send_email_via_smtp with the try and except of lines 56 and 75 left out
send_email_without_except(recipient, subject, html_body, reply) ==
    IF ~Truthy(EMAIL_SERVICE_URL) THEN NotConfigured
    ELSE TryPost(recipient, EmailPost(recipient, subject, html_body, reply), reply)

send_email_via_smtp(recipient, subject, html_body, reply) ==
    IF ~Truthy(EMAIL_SERVICE_URL) THEN NotConfigured
    ELSE CatchAll(TryPost(recipient, EmailPost(recipient, subject, html_body, reply), reply))

(***************************************************************************)
(* The pieces of analyze (src/main.py:103-189).                            *)
(***************************************************************************)
\* line 138: getattr(response, "text", None) or getattr(response, "output_text", "")
RawText(reply) ==
    IF Truthy(reply.text) THEN reply.text
    ELSE IF reply.has_output_text THEN reply.output_text
    ELSE PyText("")

\* IsEmpty testing for None alone
IsNone(text) == text.none

\* line 140: if not raw_text
IsEmpty(text) == ~Truthy(text)

EmptyResponseError ==
    Exception("ValueError",
        "Empty response received from the vision model. Content may be blocked by safety filters.")

\* CleanText with removeprefix left out
CleanTextSuffixOnly(text) == strip(removesuffix(strip(text), Fence))

\* line 145
CleanText(text) == strip(removesuffix(removeprefix(strip(text), FenceOpener), Fence))

\* the four fields from the decoded object (lines 148-151)
FieldsOf(data) ==
    AnalysisResponse(
        py_bool(dict_get(data, "weapon_detected", JBool(FALSE))),
        py_bool(dict_get(data, "gun_detected", JBool(FALSE))),
        py_bool(dict_get(data, "knife_detected", JBool(FALSE))),
        py_str(dict_get(data, "extracted_text", JStr(""))))

\* ExtractFields answering an undecodable text with the defaults
ExtractFieldsDefaulting(text) ==
    LET data == json_loads(CleanText(text))
    IN  IF ~data.ok \/ data.v.t # "dict"
        THEN [raised |-> FALSE, exc |-> NoException, fields |-> << FieldsOf(JDict(<< >>)) >>]
        ELSE [raised |-> FALSE, exc |-> NoException, fields |-> << FieldsOf(data.v) >>]

\* lines 146-151: the exception raised, or the four fields
ExtractFields(text) ==
    LET data == json_loads(CleanText(text))
    IN  IF ~data.ok
        THEN [raised |-> TRUE, exc |-> Exception("JSONDecodeError", "Expecting value"),
              fields |-> << >>]
        ELSE IF data.v.t # "dict"
        THEN [raised |-> TRUE,
              exc |-> Exception("AttributeError",
                          "'" \o data.v.t \o "' object has no attribute 'get'"),
              fields |-> << >>]
        ELSE [raised |-> FALSE, exc |-> NoException, fields |-> << FieldsOf(data.v) >>]

\* ShouldAlert triggered by any of the three detections
ShouldAlertOnAnyDetection(r) ==
    (r.weapon_detected \/ r.gun_detected \/ r.knife_detected) /\ Truthy(ALERT_EMAIL)

\* line 154
ShouldAlert(r) == r.weapon_detected /\ Truthy(ALERT_EMAIL)

\* lines 156-158
ImageSource(image_base64) ==
    IF ~startswith(image_base64, "data:image")
    THEN "data:image/jpeg;base64," \o image_base64
    ELSE image_base64

\* f"{b}" of a bool
FormatBool(b) == IF b THEN "True" ELSE "False"

\* line 160
AlertSubject == "URGENT: Weapon Detected"

\* lines 161-171
HtmlBody(r, src) ==
    "<h3>Security Alert</h3>"
    \o "<p><strong>Weapon detected:</strong> " \o FormatBool(r.weapon_detected) \o "</p>"
    \o "<p><strong>Gun detected:</strong> " \o FormatBool(r.gun_detected) \o "</p>"
    \o "<p><strong>Knife detected:</strong> " \o FormatBool(r.knife_detected) \o "</p>"
    \o "<p><strong>Extracted text from image:</strong></p>"
    \o "<pre>" \o (IF r.extracted_text # "" THEN r.extracted_text ELSE "None") \o "</pre>"
    \o "<hr>"
    \o "<h4>Snapshot Image:</h4>"
    \o "<img src=\"" \o src
    \o "\" alt=\"Security Snapshot\" style=\"max-width: 600px; height: auto; border: 2px solid #ff0000; border-radius: 5px;\"/>"

\* lines 184-189: the except clauses; what is logged and the HTTPException raised
ErrorLog(e, text) ==
    IF e.type = "JSONDecodeError"
    THEN LogRecord("ERROR", "Failed to parse JSON: " \o text)
    ELSE LogRecord("ERROR", "Analysis failed: " \o e.msg)

HTTPException(e) ==
    IF e.type = "JSONDecodeError"
    THEN [status |-> 500, detail |-> "Invalid JSON format returned from the AI model.",
          body |-> << >>]
    ELSE [status |-> 500, detail |-> e.msg, body |-> << >>]

\* lines 177-182
SuccessResponse(r) == [status |-> 200, detail |-> "", body |-> << r >>]

\* analyze leaves through an except clause
Fail(e, text, logged) ==
    /\ pc' = "Failed"
    /\ exc' = e
    /\ http' = HTTPException(e)
    /\ log' = log \o logged \o << ErrorLog(e, text) >>

(***************************************************************************)
(* The state machine.  One request is served at a time (every invocation   *)
(* has its own locals and shares only the configuration); each stage of    *)
(* analyze is one action.                                                  *)
(***************************************************************************)
Fresh ==
    /\ pc = "Idle"
    /\ payload = ""
    /\ image_part = << >>
    /\ response = << >>
    /\ raw_text = PyNone
    /\ result = << >>
    /\ img_src = ""
    /\ notifier_calls = << >>
    /\ outbox = << >>
    /\ backend_calls = 0
    /\ parse_calls = 0
    /\ exc = NoException
    /\ http = NoResponse
    /\ log = << >>

Init ==
    /\ EMAIL_SERVICE_URL \in EnvValues("http://email-service/send")
    /\ ALERT_EMAIL \in EnvValues("security@example.org")
    /\ Fresh

\* POST /analyze arrives with a payload (line 103)
Receive ==
    /\ pc = "Idle"
    /\ \E p \in Payloads : payload' = p
    /\ pc' = "Decoding"
    /\ UNCHANGED <<config, image_part, response, raw_text, result, img_src, notifier_calls,
                   outbox, backend_calls, parse_calls, exc, http, log>>

\* Decode going on to the backend after a decoding error
DecodeAndGoOn ==
    /\ pc = "Decoding"
    /\ LET part == to_image_part(payload)
       IN  image_part' = IF part.raised THEN << >>
                         ELSE << [mime_type |-> part.mime_type, data |-> part.data] >>
    /\ pc' = "Inferring"
    /\ UNCHANGED <<config, payload, response, raw_text, result, img_src, notifier_calls,
                   outbox, backend_calls, parse_calls, exc, http, log>>

\* lines 105-106
Decode ==
    /\ pc = "Decoding"
    /\ LET part == to_image_part(payload)
       IN  IF part.raised
           THEN /\ Fail(Exception("binascii.Error", part.error), "", << >>)
                /\ UNCHANGED image_part
           ELSE /\ image_part' = << [mime_type |-> part.mime_type, data |-> part.data] >>
                /\ pc' = "Inferring"
                /\ UNCHANGED <<exc, http, log>>
    /\ UNCHANGED <<config, payload, response, raw_text, result, img_src, notifier_calls,
                   outbox, backend_calls, parse_calls>>

\* lines 129-142: the one call of the backend, and the check for an empty text
Infer ==
    /\ pc = "Inferring"
    /\ \E reply \in BackendReplies :
          /\ backend_calls' = backend_calls + 1
          /\ response' = << reply >>
          /\ IF reply.raised
             THEN /\ Fail(Exception("ServerError", reply.error), "", << >>)
                  /\ UNCHANGED raw_text
             ELSE /\ raw_text' = RawText(reply)
                  /\ IF IsEmpty(RawText(reply))
                     THEN Fail(EmptyResponseError, "",
                              << LogRecord("ERROR",
                                     "Empty response from Gemini. Possible safety block.") >>)
                     ELSE /\ pc' = "Validating"
                          /\ UNCHANGED <<exc, http, log>>
    /\ UNCHANGED <<config, payload, image_part, result, img_src, notifier_calls, outbox,
                   parse_calls>>

\* lines 145-154, and lines 177-182 when no alert is due
Validate ==
    /\ pc = "Validating"
    /\ parse_calls' = parse_calls + 1
    /\ LET v == ExtractFields(raw_text.s)
       IN  IF v.raised
           THEN /\ Fail(v.exc, raw_text.s, << >>)
                /\ UNCHANGED result
           ELSE /\ result' = v.fields
                /\ IF ShouldAlert(v.fields[1])
                   THEN /\ pc' = "Notifying"
                        /\ UNCHANGED <<exc, http, log>>
                   ELSE /\ pc' = "Done"
                        /\ http' = SuccessResponse(v.fields[1])
                        /\ UNCHANGED <<exc, log>>
    /\ UNCHANGED <<config, payload, image_part, response, raw_text, img_src, notifier_calls,
                   outbox, backend_calls>>

\* lines 156-182: the alert is composed and sent, then the response is returned
Notify ==
    /\ pc = "Notifying"
    /\ \E reply \in EmailReplies :
          LET r         == result[1]
              src       == ImageSource(payload)
              html_body == HtmlBody(r, src)
              sent      == send_email_via_smtp(ALERT_EMAIL.s, AlertSubject, html_body, reply)
          IN  /\ img_src' = src
              /\ notifier_calls' = Append(notifier_calls,
                     [recipient |-> ALERT_EMAIL.s, subject |-> AlertSubject,
                      html_body |-> html_body, raised |-> sent.raised,
                      returned |-> sent.ret])
              /\ outbox' = outbox \o sent.posts
              /\ IF sent.raised
                 THEN Fail(Exception("Exception", sent.error), "", sent.logged)
                 ELSE /\ pc' = "Done"
                      /\ http' = SuccessResponse(r)
                      /\ log' = log \o sent.logged
                                \o (IF ~sent.ret
                                    THEN << LogRecord("WARNING",
                                                "Email failed to send, but proceeding to return API response.") >>
                                    ELSE << >>)
                      /\ UNCHANGED exc
    /\ UNCHANGED <<config, payload, image_part, response, raw_text, result, backend_calls,
                   parse_calls>>

\* the response has gone out; the next request starts from nothing but the configuration
Respond ==
    /\ pc \in {"Done", "Failed"}
    /\ pc' = "Idle"
    /\ payload' = ""
    /\ image_part' = << >>
    /\ response' = << >>
    /\ raw_text' = PyNone
    /\ result' = << >>
    /\ img_src' = ""
    /\ notifier_calls' = << >>
    /\ outbox' = << >>
    /\ backend_calls' = 0
    /\ parse_calls' = 0
    /\ exc' = NoException
    /\ http' = NoResponse
    /\ log' = << >>
    /\ UNCHANGED config

Next == Receive \/ Decode \/ Infer \/ Validate \/ Notify \/ Respond

Spec == Init /\ [][Next]_vars

(***************************************************************************)
(* Properties.                                                             *)
(***************************************************************************)
InvalidJsonDetail == "Invalid JSON format returned from the AI model."

\* the request has been answered with the validated result
Answered == pc = "Done" /\ result # << >>

\* C1: when analyze has answered, the notifier was called exactly once if the
\* result has weapon_detected and a recipient is configured, with a body that
\* shows each of the four fields; it was never called if weapon_detected is
\* false, whatever gun_detected, knife_detected and the configuration are.
C1_AlertExactlyWhenWeapon ==
    /\ Len(notifier_calls) <= 1
    /\ (result # << >> /\ ~result[1].weapon_detected) => notifier_calls = << >>
    /\ (Answered /\ result[1].weapon_detected /\ Truthy(ALERT_EMAIL)) =>
          /\ Len(notifier_calls) = 1
          /\ LET body == notifier_calls[1].html_body
                 r    == result[1]
                 show(b) == IF b THEN "True" ELSE "False"
             IN  /\ Contains(body, "Weapon detected:</strong> " \o show(r.weapon_detected))
                 /\ Contains(body, "Gun detected:</strong> " \o show(r.gun_detected))
                 /\ Contains(body, "Knife detected:</strong> " \o show(r.knife_detected))
                 /\ Contains(body, r.extracted_text)

C1_Witness ==
    /\ Answered
    /\ Len(notifier_calls) = 1
    /\ result[1] = AnalysisResponse(TRUE, TRUE, FALSE, "EXIT")
    /\ Contains(notifier_calls[1].html_body, "<pre>EXIT</pre>")

\* the one reply of the e-mail service that reports success
IsSuccessReply(reply) == ~reply.raised /\ reply.body = "{\"success\": true}"

\* C2: once the notifier has been called, analyze answers 200 with the result
\* validated from the backend's text, whatever the e-mail service did; the
\* notifier raised nothing and returned true only for a configured service
\* that answered success.
C2_NotificationFailureIsolated ==
    notifier_calls # << >> =>
        /\ pc = "Done"
        /\ http.status = 200
        /\ http.detail = ""
        /\ http.body = ExtractFields(raw_text.s).fields
        /\ ~notifier_calls[1].raised
        /\ notifier_calls[1].returned =
               (Truthy(EMAIL_SERVICE_URL) /\ Len(outbox) = 1 /\ IsSuccessReply(outbox[1].reply))
        /\ ~Truthy(EMAIL_SERVICE_URL) => outbox = << >>

C2_Witness ==
    /\ pc = "Done"
    /\ http.status = 200
    /\ Len(notifier_calls) = 1
    /\ ~notifier_calls[1].returned
    /\ Len(outbox) = 1
    /\ outbox[1].reply.raised

\* the backend answered, with neither a text nor an output_text
NoTextReturned ==
    /\ response # << >>
    /\ ~response[1].raised
    /\ ~Truthy(response[1].text)
    /\ ~(response[1].has_output_text /\ Truthy(response[1].output_text))

\* C3: when the backend returns no text, analyze fails with a 500 whose detail
\* speaks of an empty response, json.loads is not called and no notification
\* is attempted.
C3_EmptyTextFails ==
    NoTextReturned =>
        /\ pc = "Failed"
        /\ http.status = 500
        /\ http.body = << >>
        /\ Contains(http.detail, "Empty response")
        /\ parse_calls = 0
        /\ notifier_calls = << >>
        /\ outbox = << >>

C3_Witness ==
    /\ NoTextReturned
    /\ response[1].text = PyText("")
    /\ pc = "Failed"
    /\ Truthy(ALERT_EMAIL)

\* the backend's text was handed to json.loads, which refused it
Undecodable == parse_calls = 1 /\ ~json_loads(CleanText(raw_text.s)).ok

\* C4: a non-empty text that is not JSON after stripping ends analyze with the
\* 500 of the fixed invalid-JSON detail, no result and no notification; a
\* failure of the backend call never has that detail.
C4_MalformedResponse ==
    /\ Undecodable =>
          /\ pc = "Failed"
          /\ http = [status |-> 500, detail |-> InvalidJsonDetail, body |-> << >>]
          /\ result = << >>
          /\ notifier_calls = << >>
    /\ (response # << >> /\ response[1].raised) =>
          (pc = "Failed" /\ http.status = 500 /\ http.detail # InvalidJsonDetail)

C4_Witness ==
    /\ Undecodable
    /\ raw_text.s = "{\"weapon_detected\": true"
    /\ Truthy(ALERT_EMAIL)
    /\ pc = "Failed"
    /\ http.detail = InvalidJsonDetail

\* field or default: default when the field is absent, null or otherwise falsy
FieldOr(data, key, default) ==
    IF py_bool(dict_get(data, key, JNull)) THEN dict_get(data, key, JNull) ELSE default

\* C5: for a JSON object the result is weapon_detected = bool(field or False),
\* the same for gun_detected and knife_detected, extracted_text = str(field or
\* ""), so an absent field and a null field both give false and "".
C5_FieldDefaults ==
    result # << >> =>
        LET data == json_loads(CleanText(raw_text.s)).v
        IN  result[1] = AnalysisResponse(
                py_bool(FieldOr(data, "weapon_detected", JBool(FALSE))),
                py_bool(FieldOr(data, "gun_detected", JBool(FALSE))),
                py_bool(FieldOr(data, "knife_detected", JBool(FALSE))),
                py_str(FieldOr(data, "extracted_text", JStr(""))))

\* the MIME type C6 states for a payload
StatedMime(s) ==
    IF \E i \in 1..Len(s) : Char(s, i) = ","
    THEN LET first  == CHOOSE i \in 1..Len(s) :
                           Char(s, i) = "," /\ \A j \in 1..(i - 1) : Char(s, j) # ","
             header == SubSeq(s, 1, first - 1)
         IN  IF Contains(header, "image/jpeg") \/ Contains(header, "image/jpg")
             THEN "image/jpeg"
             ELSE "image/png"
    ELSE "image/jpeg"

\* C6: the MIME type of a payload with a comma is image/jpeg exactly when the
\* text before the first comma contains image/jpeg or image/jpg, and image/png
\* otherwise; without a comma it is image/jpeg and the whole payload is the
\* base64 body.
C6_MimeInference ==
    /\ pc = "Decoding" => to_image_part(payload).mime_type = StatedMime(payload)
    /\ image_part # << >> => image_part[1].mime_type = StatedMime(payload)
    /\ (pc = "Inferring" /\ ~Contains(payload, ",")) =>
          image_part[1].data = b64decode(payload).data

C6_Witness ==
    /\ image_part # << >>
    /\ payload = "data:image/jpg;base64,QUJD"
    /\ image_part[1] = [mime_type |-> "image/jpeg", data |-> <<65, 66, 67>>]

\* C7: a JSON object text wrapped in a markdown fence, with or without
\* whitespace around it, is validated to the same result as the object text
\* itself, and stripping the stripped text again changes nothing.
C7_FenceStripping ==
    parse_calls = 1 =>
        \A o \in ObjectTexts : \A l \in Pads : \A r \in Pads :
            raw_text.s \in {l \o Fenced(o) \o r, l \o o \o r} =>
                /\ result = ExtractFields(o).fields
                /\ CleanText(raw_text.s) = o
                /\ CleanText(CleanText(raw_text.s)) = CleanText(raw_text.s)

C7_Witness ==
    /\ Answered
    /\ raw_text.s = " " \o FenceOpener \o "\n"
                    \o "{\"weapon_detected\": true, \"gun_detected\": true, \"knife_detected\": false, \"extracted_text\": \"EXIT\"}"
                    \o "\n" \o Fence \o " "
    /\ result[1] = AnalysisResponse(TRUE, TRUE, FALSE, "EXIT")

\* the exceptions that come from a library or the backend, not from analyze itself
InternalException == exc.type \in {"binascii.Error", "ServerError", "AttributeError"}

\* C8: on every failure the response is a 500 whose detail does not carry the
\* text of the internal or backend exception, which is in the log alone.
C8_NoInternalsInDetail ==
    pc = "Failed" =>
        /\ http.status = 500
        /\ InternalException =>
              /\ ~Contains(http.detail, exc.msg)
              /\ \E i \in 1..Len(log) : Contains(log[i].msg, exc.msg)

StageSteps ==
    {<<"Idle", "Decoding">>,
     <<"Decoding", "Inferring">>, <<"Decoding", "Failed">>,
     <<"Inferring", "Validating">>, <<"Inferring", "Failed">>,
     <<"Validating", "Notifying">>, <<"Validating", "Done">>, <<"Validating", "Failed">>,
     <<"Notifying", "Done">>, <<"Notifying", "Failed">>,
     <<"Done", "Idle">>, <<"Failed", "Idle">>}

FourFields(r) ==
    /\ DOMAIN r = {"weapon_detected", "gun_detected", "knife_detected", "extracted_text"}
    /\ r.weapon_detected \in BOOLEAN
    /\ r.gun_detected \in BOOLEAN
    /\ r.knife_detected \in BOOLEAN

\* C9: every step of analyze follows the order Decoding, Inferring, Validating,
\* Notifying, Done, or goes to Failed; the backend is called at most once and
\* only with a decoded image, the notifier only with a validated result,
\* nothing runs after a failure, and the response is a full result or a 500.
C9_StageOrder ==
    [][ /\ <<pc, pc'>> \in StageSteps
        /\ backend_calls' \in {0, 1}
        /\ backend_calls' # backend_calls =>
              (pc' = "Idle" \/ (pc = "Inferring" /\ image_part # << >>))
        /\ parse_calls' # parse_calls =>
              (pc' = "Idle" \/ (pc = "Validating" /\ backend_calls = 1))
        /\ notifier_calls' # notifier_calls =>
              (pc' = "Idle" \/ (pc = "Notifying" /\ result # << >> /\ parse_calls = 1))
        /\ pc' = "Done" =>
              /\ http'.status = 200
              /\ Len(http'.body) = 1
              /\ FourFields(http'.body[1])
              /\ http'.body = result'
        /\ pc' = "Failed" => (http'.status = 500 /\ http'.body = << >>)
        /\ pc' \notin {"Done", "Failed"} => http' = NoResponse
      ]_vars

C9_Witness ==
    /\ pc = "Done"
    /\ backend_calls = 1
    /\ parse_calls = 1
    /\ Len(notifier_calls) = 1
    /\ image_part # << >>

\* the MIME type a data-URL names, with image/jpg read as image/jpeg
UrlMime(src) ==
    LET named == SubSeq(src, 6, Find(src, ";") - 1)
    IN  IF named = "image/jpg" THEN "image/jpeg" ELSE named

\* C10: the inline image of an alert is the payload itself when the payload
\* has a header and a comma, and the payload after data:image/jpeg;base64,
\* when it has none; it names the MIME type to_image_part inferred.
C10_ImageSourceWellFormed ==
    notifier_calls # << >> =>
        /\ Contains(payload, ",") => img_src = payload
        /\ ~Contains(payload, ",") => img_src = "data:image/jpeg;base64," \o payload
        /\ startswith(img_src, "data:")
        /\ Contains(img_src, ";")
        /\ UrlMime(img_src) = image_part[1].mime_type

=============================================================================
